---- MODULE Spec2Model ----
(***************************************************************************)
(* A model of TideService (src/src/App.tsx, lines 180-400): the sampler    *)
(* getTideData, the extremum detector findExtremes with its smoother, the  *)
(* risk classifier isDangerousTide and the recommendation generator        *)
(* getBestFridayVisitTimes.                                                *)
(*                                                                         *)
(* Representation.                                                         *)
(*  - Times are milliseconds measured from REFERENCE_TIME (local midnight  *)
(*    of Wednesday 2025-01-01), so that they fit TLC's 32-bit integers.    *)
(*    getDay/getHours are those of a time zone with a fixed offset.        *)
(*  - Heights are integers in units of 1/600 m (HeightScale units per      *)
(*    centimetre).  Every input height is a whole number of centimetres,   *)
(*    so the mean over 1, 2 or 3 points that smoothData takes is exact and *)
(*    the comparisons of the code are the comparisons of the model.        *)
(*    Rounding is modelled at a reduced precision (see FloatPrecision);    *)
(*    it leaves heights below 2^FloatPrecision units, all those of the     *)
(*    detector's inputs, exact.                                            *)
(*  - Arrays are sequences; the code's 0-based index i is At(s, i).        *)
(***************************************************************************)
EXTENDS Integers, Sequences, FiniteSets, TLC

VARIABLES
    pc,              \* position in the running operation
    days,            \* getTideData: the days argument
    startTime,       \* getTideData: now.getTime()
    time,            \* getTideData: the loop variable
    rng,             \* state of the generator behind Math.random
    points,          \* TidePoint[]: the sampled or supplied series
    smoothedPoints,  \* findExtremes: smoothData(points, 3)
    candidates,      \* findExtremes: the candidate extremes
    ci,              \* findExtremes: candidates consumed by the merge loop
    extremes,        \* findExtremes: the output list; elsewhere the argument
    lastExtreme,     \* findExtremes: <<>> for null, else <<the last accepted>>
    height,          \* isDangerousTide: the height argument
    isDangerous,     \* isDangerousTide: the returned value
    recommendations, \* getBestFridayVisitTimes: the returned list
    branches,        \* history: the branch each merge iteration took
    window           \* smoothData: the windowSize argument

vars == <<pc, days, startTime, time, rng, points, smoothedPoints, candidates,
          ci, extremes, lastExtreme, height, isDangerous, recommendations,
          branches, window>>

----------------------------------------------------------------------------
(* Units and program constants *)

HeightScale == 2 * 3
Cm(x) == HeightScale * x

MsPerHour == 3600000
MsPerDay == 86400000
samplingInterval == 30 * 60 * 1000
MinPoints == 10
SmoothWindow == 3
windowSize == 6
minTimeBetweenExtremes == 4 * 60 * 60 * 1000
minHeightDifference == 60
highTideThreshold == 510
RapidHeightDiff == 240
RapidTimeDiff == 14400000

Max(a, b) == IF a >= b THEN a ELSE b
Min(a, b) == IF a <= b THEN a ELSE b
Abs(x) == IF x < 0 THEN -x ELSE x
At(s, i) == s[i + 1]

----------------------------------------------------------------------------
(* smoothData: the edge-clamped moving average *)

(* Heights are JavaScript numbers.  Their arithmetic is modelled as binary  *)
(* floating point with FloatPrecision significant bits instead of 53,      *)
(* rounding to nearest, ties to even: an integer below 2^FloatPrecision    *)
(* model units is exact, a larger one is rounded to a multiple of its unit *)
(* in the last place.  A quotient is rounded to a whole model unit when it *)
(* is below 2^FloatPrecision.                                              *)

FloatPrecision == 12

RECURSIVE ulpFrom(_, _)
ulpFrom(q, u) == IF q >= (2 ^ FloatPrecision) * u THEN ulpFrom(q, 2 * u) ELSE u

ulp(x) == ulpFrom(Abs(x), 1)

roundNearestEven(n, d) ==
    LET u == ulpFrom(n \div d, 1)
        f == n \div (d * u)
        rem == n % (d * u)
    IN IF 2 * rem > d * u \/ (2 * rem = d * u /\ f % 2 = 1)
       THEN (f + 1) * u
       ELSE f * u

fl(n, d) == IF n < 0 THEN 0 - roundNearestEven(0 - n, d) ELSE roundNearestEven(n, d)

fadd(a, b) == fl(a + b, 1)
fdiv(a, c) == fl(a, c)

RECURSIVE sumLoop(_, _, _, _)
sumLoop(pts, j, end, sum) ==
    IF j > end THEN sum
    ELSE sumLoop(pts, j + 1, end, fadd(sum, At(pts, j).height))

SumHeights(pts, start, end) == sumLoop(pts, start, end, 0)

(* Faulty variant of smoothData: the window is not clamped at the ends of  *)
(* the series (missing points count as height 0).                          *)
smoothDataZeroPadded(pts, w) ==
    [k \in 1..Len(pts) |->
        LET i == k - 1
            start == Max(0, i - (w \div 2))
            end == Min(Len(pts) - 1, i + (w \div 2))
            sum == SumHeights(pts, start, end)
            count == 2 * (w \div 2) + 1
        IN [time |-> At(pts, i).time, height |-> fdiv(sum, count)]]

smoothData(pts, w) ==
    [k \in 1..Len(pts) |->
        LET i == k - 1
            start == Max(0, i - (w \div 2))
            end == Min(Len(pts) - 1, i + (w \div 2))
            sum == SumHeights(pts, start, end)
            count == end - start + 1
        IN [time |-> At(pts, i).time, height |-> fdiv(sum, count)]]

SM_Call ==
    /\ pc = "sm_call"
    /\ smoothedPoints' = smoothData(points, window)
    /\ pc' = "sm_done"
    /\ UNCHANGED <<days, startTime, time, rng, points, candidates, ci,
                   extremes, lastExtreme, height, isDangerous, recommendations,
                   branches, window>>

----------------------------------------------------------------------------
(* findExtremes: the candidate scan *)

(* Faulty variant of isHighAt: a neighbour of equal height does not clear   *)
(* isHigh.                                                                 *)
isHighAtTiesAllowed(sm, i) ==
    \A j \in (i - windowSize)..(i + windowSize) :
        j # i => ~(At(sm, j).height > At(sm, i).height)

isHighAt(sm, i) ==
    \A j \in (i - windowSize)..(i + windowSize) :
        j # i => ~(At(sm, j).height >= At(sm, i).height)

isLowAt(sm, i) ==
    \A j \in (i - windowSize)..(i + windowSize) :
        j # i => ~(At(sm, j).height <= At(sm, i).height)

candidateAt(sm, i) ==
    IF isHighAt(sm, i) /\ ~isLowAt(sm, i)
    THEN <<[time |-> At(sm, i).time, height |-> At(sm, i).height, type |-> "high"]>>
    ELSE IF isLowAt(sm, i) /\ ~isHighAt(sm, i)
    THEN <<[time |-> At(sm, i).time, height |-> At(sm, i).height, type |-> "low"]>>
    ELSE <<>>

scanIndices(n) ==
    [k \in 1..Max(0, n - 2 * windowSize) |-> windowSize + k - 1]

findCandidates(sm) ==
    LET hits == SelectSeq(scanIndices(Len(sm)),
                          LAMBDA i : candidateAt(sm, i) # <<>>)
    IN [k \in 1..Len(hits) |-> candidateAt(sm, hits[k])[1]]

----------------------------------------------------------------------------
(* findExtremes: one iteration of the merge loop.  st is the pair          *)
(* [extremes, lastExtreme]; lastExtreme is <<>> for null.                  *)

(* Faulty variant of timeGapOk: the gap is 4 minutes, not 4 hours. *)
timeGapOkMinutes(candidate, last) ==
    candidate.time - last.time >= 4 * 60 * 1000

(* Faulty variant of timeGapOk: the gap is 2 hours, below the 4 hours of   *)
(* isDangerousTide's rapid-change rule.                                    *)
timeGapOkTwoHours(candidate, last) ==
    candidate.time - last.time >= 2 * MsPerHour

timeGapOk(candidate, last) ==
    candidate.time - last.time >= minTimeBetweenExtremes

heightGapOk(candidate, last) ==
    Abs(candidate.height - last.height) >= minHeightDifference

isMoreExtreme(candidate, last) ==
    \/ candidate.type = "high" /\ candidate.height > last.height
    \/ candidate.type = "low" /\ candidate.height < last.height

replaceLast(ext, candidate) ==
    [ext EXCEPT ![Len(ext)] = candidate]

mergeBranch(st, candidate) ==
    IF st.lastExtreme = <<>> THEN "first"
    ELSE LET last == st.lastExtreme[1] IN
         IF timeGapOk(candidate, last) /\ heightGapOk(candidate, last)
         THEN IF candidate.type # last.type THEN "accept"
              ELSE IF isMoreExtreme(candidate, last) THEN "replace"
              ELSE "keep"
         ELSE "reject"

(* Faulty variant of mergeStep: a more extreme candidate of the same kind   *)
(* is appended instead of overwriting the last entry.                      *)
mergeStepPushesSameKind(st, candidate) ==
    LET branch == mergeBranch(st, candidate) IN
    IF branch \in {"first", "accept", "replace"}
    THEN [extremes |-> Append(st.extremes, candidate), lastExtreme |-> <<candidate>>]
    ELSE st

(* Faulty variant of mergeStep: a candidate of the same kind that passes    *)
(* the gap tests overwrites the last entry whether or not it is more       *)
(* extreme.                                                                *)
mergeStepAlwaysReplaces(st, candidate) ==
    LET branch == mergeBranch(st, candidate) IN
    IF branch \in {"first", "accept"}
    THEN [extremes |-> Append(st.extremes, candidate), lastExtreme |-> <<candidate>>]
    ELSE IF branch \in {"replace", "keep"}
    THEN [extremes |-> replaceLast(st.extremes, candidate),
          lastExtreme |-> <<candidate>>]
    ELSE st

mergeStep(st, candidate) ==
    LET branch == mergeBranch(st, candidate) IN
    IF branch \in {"first", "accept"}
    THEN [extremes |-> Append(st.extremes, candidate), lastExtreme |-> <<candidate>>]
    ELSE IF branch = "replace"
    THEN [extremes |-> replaceLast(st.extremes, candidate),
          lastExtreme |-> <<candidate>>]
    ELSE st

RECURSIVE mergeFrom(_, _, _)
mergeFrom(st, cands, k) ==
    IF k > Len(cands) THEN st
    ELSE mergeFrom(mergeStep(st, cands[k]), cands, k + 1)

findExtremes(pts) ==
    IF Len(pts) < MinPoints THEN <<>>
    ELSE mergeFrom([extremes |-> <<>>, lastExtreme |-> <<>>],
                   findCandidates(smoothData(pts, SmoothWindow)), 1).extremes

----------------------------------------------------------------------------
(* calculateTideHeight.  Speeds are in millidegrees per hour, amplitudes   *)
(* in centimetres, phases in degrees.  The elapsed time is taken in whole  *)
(* minutes and the cosine is Bhaskara's rational approximation             *)
(* cos x = (32400 - 4x^2) / (32400 + x^2), x in degrees, |x| <= 90,        *)
(* evaluated in tenths of a degree; the result is a whole number of        *)
(* centimetres.  Math.random is a linear congruential generator whose      *)
(* seed is the only unknown.                                               *)

getDefaultConstituents ==
    << [name |-> "M2", speed |-> 28984, amplitude |-> 28, phase |-> 220],
       [name |-> "S2", speed |-> 30000, amplitude |-> 12, phase |-> 250],
       [name |-> "N2", speed |-> 28440, amplitude |-> 6, phase |-> 200],
       [name |-> "K1", speed |-> 15041, amplitude |-> 8, phase |-> 150],
       [name |-> "O1", speed |-> 13943, amplitude |-> 5, phase |-> 130],
       [name |-> "Z0", speed |-> 0, amplitude |-> 50, phase |-> 0] >>

bhaskara(amp, x) == (amp * (3240000 - 4 * x * x)) \div (3240000 + x * x)

ampCos(amp, angleMilliDeg) ==
    LET d == (angleMilliDeg % 360000) \div 100 IN
    IF d <= 900 THEN bhaskara(amp, d)
    ELSE IF d <= 2700 THEN 0 - bhaskara(amp, d - 1800)
    ELSE bhaskara(amp, d - 3600)

constituentTerm(c, t) ==
    IF c.name = "Z0" THEN c.amplitude
    ELSE ampCos(c.amplitude, (c.speed * (t \div 60000)) \div 60 + c.phase * 1000)

RECURSIVE sumTerms(_, _, _)
sumTerms(cs, k, t) ==
    IF k > Len(cs) THEN 0
    ELSE constituentTerm(cs[k], t) + sumTerms(cs, k + 1, t)

nextRandom(r) == (75 * r + 74) % 65537
randomVariation(r) == (r % 10) - 5

calculateTideHeight(t, cs, r) ==
    Cm(sumTerms(cs, 1, t) + randomVariation(r))

----------------------------------------------------------------------------
(* getTideData: the sampling loop (lines 199-210) and the call of          *)
(* findExtremes (212-213).  The state after lines 199-205 is the initial   *)
(* state: time = startTime, points = [].                                   *)

endTime == startTime + days * MsPerDay

(* Faulty variants of inWindow: the end of the window excluded; the body   *)
(* run once before the test (a do-while loop).                             *)
inWindowExclusive(t, end) == t < end

inWindowDoWhile(t, end) == t <= end \/ t = startTime

inWindow(t, end) == t <= end

TD_Sample ==
    /\ pc = "td_loop"
    /\ inWindow(time, endTime)
    /\ points' = Append(points,
                        [time |-> time,
                         height |-> calculateTideHeight(time, getDefaultConstituents,
                                                        nextRandom(rng))])
    /\ rng' = nextRandom(rng)
    /\ time' = time + samplingInterval
    /\ UNCHANGED <<pc, days, startTime, smoothedPoints, candidates, ci,
                   extremes, lastExtreme, height, isDangerous, recommendations,
                   branches,
                   window>>

TD_Return ==
    /\ pc = "td_loop"
    /\ ~inWindow(time, endTime)
    /\ extremes' = findExtremes(points)
    /\ pc' = "td_done"
    /\ UNCHANGED <<days, startTime, time, rng, points, smoothedPoints,
                   candidates, ci, lastExtreme, height, isDangerous,
                   recommendations, branches,
                   window>>

----------------------------------------------------------------------------
(* [...extremes].sort((a, b) => a.time - b.time): Array.prototype.sort is  *)
(* stable, so entries of equal time keep their order.                      *)

RECURSIVE insertByTime(_, _)
insertByTime(sorted, e) ==
    IF sorted = <<>> THEN <<e>>
    ELSE IF sorted[Len(sorted)].time <= e.time THEN Append(sorted, e)
    ELSE Append(insertByTime(SubSeq(sorted, 1, Len(sorted) - 1), e),
                sorted[Len(sorted)])

RECURSIVE sortByTime(_)
sortByTime(ext) ==
    IF ext = <<>> THEN <<>>
    ELSE insertByTime(sortByTime(SubSeq(ext, 1, Len(ext) - 1)), ext[Len(ext)])

----------------------------------------------------------------------------
(* isDangerousTide *)

rapidSwing(prev, cur) ==
    /\ Abs(cur.height - prev.height) > RapidHeightDiff
    /\ cur.time - prev.time < RapidTimeDiff

(* Faulty variant of isDangerousTide: the list is scanned unsorted. *)
isDangerousTideUnsorted(h, ext) ==
    IF h > highTideThreshold THEN TRUE
    ELSE IF Len(ext) >= 2
    THEN \E i \in 2..Len(ext) : rapidSwing(ext[i - 1], ext[i])
    ELSE FALSE

isDangerousTide(h, ext) ==
    IF h > highTideThreshold THEN TRUE
    ELSE IF Len(ext) >= 2
    THEN LET sortedExtremes == sortByTime(ext) IN
         \E i \in 2..Len(sortedExtremes) :
             rapidSwing(sortedExtremes[i - 1], sortedExtremes[i])
    ELSE FALSE

DT_Call ==
    /\ pc = "dt_call"
    /\ isDangerous' = isDangerousTide(height, extremes)
    /\ pc' = "dt_done"
    /\ UNCHANGED <<days, startTime, time, rng, points, smoothedPoints,
                   candidates, ci, extremes, lastExtreme, height,
                   recommendations, branches,
                   window>>

----------------------------------------------------------------------------
(* getBestFridayVisitTimes.  getDay and getHours are those of a time zone  *)
(* with a fixed offset: time 0 is local midnight of a Wednesday (day 3).   *)

RefWeekday == 3
Friday == 5
getDay(t) == (RefWeekday + (t \div MsPerDay)) % 7
getHours(t) == (t % MsPerDay) \div MsPerHour

IdealReason == "Low tide during daylight hours - ideal for beach activities"
SwimReason == "Gradually rising tide - good for swimming"

(* Faulty variant of isFriday: no weekday filter. *)
isFridayAnyDay(e) == TRUE

isFriday(e) == getDay(e.time) = Friday

(* Faulty variant of idealRecs: hour 18 excluded. *)
idealRecsBefore18(e) ==
    IF e.type = "low" /\ getHours(e.time) >= 6 /\ getHours(e.time) < 18
    THEN <<[time |-> e.time, reason |-> IdealReason]>>
    ELSE <<>>

idealRecs(e) ==
    IF e.type = "low" /\ getHours(e.time) >= 6 /\ getHours(e.time) <= 18
    THEN <<[time |-> e.time, reason |-> IdealReason]>>
    ELSE <<>>

(* Faulty variant of swimRecs: half an hour added instead of one hour. *)
swimRecsHalfHour(e) ==
    IF e.type = "low"
    THEN LET swimmingTime == e.time + 1800000 IN
         IF getHours(swimmingTime) >= 7 /\ getHours(swimmingTime) <= 17
         THEN <<[time |-> swimmingTime, reason |-> SwimReason]>>
         ELSE <<>>
    ELSE <<>>

swimRecs(e) ==
    IF e.type = "low"
    THEN LET swimmingTime == e.time + 3600000 IN
         IF getHours(swimmingTime) >= 7 /\ getHours(swimmingTime) <= 17
         THEN <<[time |-> swimmingTime, reason |-> SwimReason]>>
         ELSE <<>>
    ELSE <<>>

RECURSIVE recsFrom(_, _)
recsFrom(sortedExtremes, i) ==
    IF i > Len(sortedExtremes) THEN <<>>
    ELSE idealRecs(sortedExtremes[i]) \o swimRecs(sortedExtremes[i])
         \o recsFrom(sortedExtremes, i + 1)

getBestFridayVisitTimes(ext) ==
    recsFrom(sortByTime(SelectSeq(ext, isFriday)), 1)

FR_Call ==
    /\ pc = "fr_call"
    /\ recommendations' = getBestFridayVisitTimes(extremes)
    /\ pc' = "fr_done"
    /\ UNCHANGED <<days, startTime, time, rng, points, smoothedPoints,
                   candidates, ci, extremes, lastExtreme, height, isDangerous,
                   branches,
                   window>>

----------------------------------------------------------------------------
(* findExtremes as a process: entry and guard (lines 236-242), candidate   *)
(* scan (244-278), one merge iteration per step (286-313), return (315).   *)

(* Faulty variant of FE_Enter: too few points raise instead of returning   *)
(* the empty list.                                                         *)
FE_EnterThrows ==
    /\ pc = "fe_enter"
    /\ extremes' = <<>>
    /\ IF Len(points) < MinPoints
       THEN /\ pc' = "raised"
            /\ UNCHANGED smoothedPoints
       ELSE /\ smoothedPoints' = smoothData(points, SmoothWindow)
            /\ pc' = "fe_scan"
    /\ UNCHANGED <<days, startTime, time, rng, points, candidates, ci,
                   lastExtreme, height, isDangerous, recommendations, branches,
                   window>>

FE_Enter ==
    /\ pc = "fe_enter"
    /\ extremes' = <<>>
    /\ IF Len(points) < MinPoints
       THEN /\ pc' = "fe_done"
            /\ UNCHANGED smoothedPoints
       ELSE /\ smoothedPoints' = smoothData(points, SmoothWindow)
            /\ pc' = "fe_scan"
    /\ UNCHANGED <<days, startTime, time, rng, points, candidates, ci,
                   lastExtreme, height, isDangerous, recommendations, branches,
                   window>>

FE_Scan ==
    /\ pc = "fe_scan"
    /\ candidates' = findCandidates(smoothedPoints)
    /\ ci' = 0
    /\ lastExtreme' = <<>>
    /\ pc' = "fe_merge"
    /\ UNCHANGED <<days, startTime, time, rng, points, smoothedPoints,
                   extremes, height, isDangerous, recommendations, branches,
                   window>>

FE_MergeStep ==
    /\ pc = "fe_merge"
    /\ ci < Len(candidates)
    /\ LET st == mergeStep([extremes |-> extremes, lastExtreme |-> lastExtreme],
                           At(candidates, ci))
       IN /\ extremes' = st.extremes
          /\ lastExtreme' = st.lastExtreme
    /\ branches' = Append(branches,
                          mergeBranch([extremes |-> extremes,
                                       lastExtreme |-> lastExtreme],
                                      At(candidates, ci)))
    /\ ci' = ci + 1
    /\ UNCHANGED <<pc, days, startTime, time, rng, points, smoothedPoints,
                   candidates, height, isDangerous, recommendations,
                   window>>

FE_Return ==
    /\ pc = "fe_merge"
    /\ ci = Len(candidates)
    /\ pc' = "fe_done"
    /\ UNCHANGED <<days, startTime, time, rng, points, smoothedPoints,
                   candidates, ci, extremes, lastExtreme, height, isDangerous,
                   recommendations, branches,
                   window>>

----------------------------------------------------------------------------
(* Inputs of findExtremes.  A series is a run of segments of SegLen        *)
(* points: a flat stretch at a base level with, in its middle, a bump      *)
(* base+s, base+2s, base+s (s < 0: a trough, s = 0: none).  The points are *)
(* dt apart.  Short series (fewer points than any segment) are prefixes of *)
(* a one-segment series.  Edge series are one segment, possibly with a     *)
(* bump whose top is two equal points (top = 2), less up to MaxSkip points *)
(* at its start and at its end, which puts the bump at, or just outside,   *)
(* the first and last index the scan evaluates.                            *)

MaxSegs == 3
MaxShort == 12
SegFlat == windowSize
SegLen == 2 * SegFlat + 3
Levels == {0, 20, 35}
Bumps == {-6, 0, 6}
Dts == {900000, 960000, 1800000}
ShortDts == Dts \cup {0}
SegChoices == [base : Levels, bump : Bumps, top : {1}]
TieChoices == [base : Levels, bump : Bumps \ {0}, top : {2}]
MaxSkip == 2

segHeight(seg, k) ==
    IF k = SegFlat + 1 \/ k = SegFlat + 2 + seg.top THEN seg.base + seg.bump
    ELSE IF k > SegFlat + 1 /\ k < SegFlat + 2 + seg.top THEN seg.base + 2 * seg.bump
    ELSE seg.base

seriesOf(segs, n, t0, dt) ==
    [k \in 1..n |->
        [time |-> t0 + (k - 1) * dt,
         height |-> Cm(segHeight(segs[((k - 1) \div SegLen) + 1],
                                 ((k - 1) % SegLen) + 1))]]

Idle ==
    /\ days = 0 /\ startTime = 0 /\ time = 0 /\ rng = 0
    /\ smoothedPoints = <<>> /\ candidates = <<>> /\ ci = 0
    /\ lastExtreme = <<>> /\ height = 0 /\ isDangerous = FALSE
    /\ recommendations = <<>> /\ branches = <<>> /\ window = 0

InitExtremes ==
    /\ Idle
    /\ pc = "fe_enter"
    /\ \/ \E segs \in [1..1 -> SegChoices], n \in 0..MaxShort, dt \in ShortDts :
              points = seriesOf(segs, n, 0, dt)
       \/ \E K \in 1..MaxSegs :
              \E segs \in [1..K -> SegChoices], dt \in Dts :
                  points = seriesOf(segs, K * SegLen, 0, dt)
       \/ \E segs \in [1..1 -> SegChoices \cup TieChoices], dt \in Dts,
             skip \in 0..MaxSkip, cut \in 0..MaxSkip :
              points = SubSeq(seriesOf(segs, SegLen - cut, 0, dt),
                              skip + 1, SegLen - cut)
    /\ extremes = <<>>

NextExtremes == FE_Enter \/ FE_Scan \/ FE_MergeStep \/ FE_Return

SpecExtremes == InitExtremes /\ [][NextExtremes]_vars

----------------------------------------------------------------------------
(* Properties of findExtremes *)

StrictlyIncreasingTimes(pts) ==
    \A k \in 1..(Len(pts) - 1) : pts[k].time < pts[k + 1].time

Alternating(ext) ==
    \A k \in 1..(Len(ext) - 1) : ext[k].type # ext[k + 1].type

HeightGapsOk(ext) ==
    \A k \in 1..(Len(ext) - 1) :
        Abs(ext[k + 1].height - ext[k].height) >= minHeightDifference

TimeGapsOk(ext) ==
    \A k \in 1..(Len(ext) - 1) :
        ext[k + 1].time - ext[k].time >= minTimeBetweenExtremes

SortedByTime(ext) ==
    \A k \in 1..(Len(ext) - 1) : ext[k].time <= ext[k + 1].time

(* C1: the output of findExtremes never holds two consecutive entries of   *)
(* the same kind, in the returned list and after every step of the merge   *)
(* loop (accept, reject, replace), for every input series.                 *)
C1_Alternating == Alternating(extremes)

(* C2 as claimed: for strictly increasing input times, every pair of       *)
(* consecutive entries of the returned list differs by at least 0.1 m.     *)
C2_HeightGaps ==
    (pc = "fe_done" /\ StrictlyIncreasingTimes(points)) => HeightGapsOk(extremes)

(* C3: for strictly increasing input times the output is sorted by time    *)
(* and consecutive entries are at least 4 h apart, after every step of the *)
(* merge loop and in the returned list.                                    *)
C3_TimeGaps ==
    StrictlyIncreasingTimes(points) =>
        SortedByTime(extremes) /\ TimeGapsOk(extremes)

Took(b) == \E k \in 1..Len(branches) : branches[k] = b

C1_Witness ==
    /\ pc = "fe_done"
    /\ Took("accept") /\ Took("replace")
    /\ Len(extremes) >= 2

C3_Witness ==
    /\ pc = "fe_done"
    /\ StrictlyIncreasingTimes(points)
    /\ Len(branches) = 3 /\ branches[3] = "replace"
    /\ Len(extremes) = 2
    /\ extremes[2].time - extremes[1].time >= 2 * minTimeBetweenExtremes

(* C5: findExtremes on fewer than 10 points returns the empty list and     *)
(* does not raise: it goes from its entry straight to its return.          *)
C5_ShortInputEmpty ==
    Len(points) < MinPoints =>
        /\ pc \in {"fe_enter", "fe_done"}
        /\ extremes = <<>>

C5_Witness ==
    /\ pc = "fe_done"
    /\ Len(points) = MinPoints - 1
    /\ extremes = <<>>

----------------------------------------------------------------------------
(* Inputs of getTideData: the days argument, the clock and the seed. *)

MaxDays == 2
DefaultDaysToShow == 7
DaysArgs == ((0 - 1)..MaxDays) \cup {DefaultDaysToShow}
StartTimes == {0, 5025000, 190800000}
Seeds == {1, 2}

InitTideData ==
    /\ pc = "td_loop"
    /\ days \in DaysArgs
    /\ startTime \in StartTimes
    /\ time = startTime
    /\ rng \in Seeds
    /\ points = <<>>
    /\ smoothedPoints = <<>> /\ candidates = <<>> /\ ci = 0
    /\ extremes = <<>> /\ lastExtreme = <<>> /\ height = 0
    /\ isDangerous = FALSE /\ recommendations = <<>> /\ branches = <<>> /\ window = 0

NextTideData == TD_Sample \/ TD_Return

SpecTideData == InitTideData /\ [][NextTideData]_vars

(* C6: for days >= 0 the sampler yields the points s, s + 1,800,000, ...,  *)
(* strictly increasing and all inside [s, s + days * 86,400,000]; when it  *)
(* returns there are exactly days * 48 + 1 of them, the last one at        *)
(* s + days * 86,400,000 (337 points for days = 7).                        *)
C6_SamplerGrid ==
    days >= 0 =>
        /\ \A k \in 1..Len(points) :
              /\ points[k].time = startTime + (k - 1) * 1800000
              /\ points[k].time >= startTime
              /\ points[k].time <= startTime + days * 86400000
        /\ pc = "td_done" =>
              /\ Len(points) = days * 48 + 1
              /\ points[1].time = startTime
              /\ points[Len(points)].time = startTime + days * 86400000
              /\ (days = 7 => Len(points) = 337)

C6_Witness ==
    /\ pc = "td_done"
    /\ days = 7
    /\ Len(points) = 337
    /\ points[337].time = startTime + 604800000

(* C7: a degenerate window does not raise; days = 0 yields exactly one     *)
(* point, at the start time, days < 0 yields no point, and in both cases   *)
(* the extremes list is empty.                                             *)
C7_DegenerateWindow ==
    days <= 0 =>
        /\ pc \in {"td_loop", "td_done"}
        /\ Len(points) <= 1
        /\ pc = "td_done" =>
              /\ extremes = <<>>
              /\ days = 0 => (Len(points) = 1 /\ points[1].time = startTime)
              /\ days < 0 => points = <<>>

C7_Witness ==
    /\ pc = "td_done"
    /\ days = 0
    /\ Len(points) = 1
    /\ extremes = <<>>

----------------------------------------------------------------------------
(* Inputs of isDangerousTide: a height around the 0.85 m threshold and a   *)
(* list, in any order, of extremes 0 h, 2 h, 4 h or 6 h after the first    *)
(* time, of height 0, 0.40 m or 0.41 m.                                    *)

MaxDangerExt == 3
DangerHeights == {Cm(84), Cm(85), Cm(86)}
DangerTimes == {0, 7200000, 14400000, 21600000}
DangerEntries ==
    { [time |-> t, height |-> Cm(h), type |-> IF h = 0 THEN "low" ELSE "high"] :
        t \in DangerTimes, h \in {0, 40, 41} }

InitDanger ==
    /\ pc = "dt_call"
    /\ height \in DangerHeights
    /\ \E n \in 0..MaxDangerExt : extremes \in [1..n -> DangerEntries]
    /\ days = 0 /\ startTime = 0 /\ time = 0 /\ rng = 0 /\ points = <<>>
    /\ smoothedPoints = <<>> /\ candidates = <<>> /\ ci = 0
    /\ lastExtreme = <<>> /\ isDangerous = FALSE
    /\ recommendations = <<>> /\ branches = <<>> /\ window = 0

NextDanger == DT_Call

SpecDanger == InitDanger /\ [][NextDanger]_vars

(* The entry at index a comes right before the entry at index b when the   *)
(* list is put in ascending order of time (entries of equal time in their  *)
(* order in the list).                                                     *)
Before(ext, a, b) ==
    \/ ext[a].time < ext[b].time
    \/ ext[a].time = ext[b].time /\ a < b

AdjacentByTime(ext, a, b) ==
    /\ Before(ext, a, b)
    /\ ~ \E c \in DOMAIN ext : Before(ext, a, c) /\ Before(ext, c, b)

(* C4: isDangerousTide returns true exactly when height > 0.85 m or some   *)
(* pair of extremes adjacent in ascending time order is more than 0.4 m    *)
(* apart in height and less than 14,400,000 ms apart in time.              *)
C4_DangerIff ==
    pc = "dt_done" =>
        (isDangerous <=>
            \/ height > 510
            \/ \E a, b \in DOMAIN extremes :
                  /\ AdjacentByTime(extremes, a, b)
                  /\ Abs(extremes[b].height - extremes[a].height) > 240
                  /\ extremes[b].time - extremes[a].time < 14400000)

C4_Witness ==
    /\ pc = "dt_done"
    /\ isDangerous
    /\ height = 510
    /\ Len(extremes) = 3
    /\ extremes[1].time > extremes[2].time
    /\ \E k \in 1..2 : Abs(extremes[k + 1].height - extremes[k].height) = 240

----------------------------------------------------------------------------
(* Inputs of getBestFridayVisitTimes: lists, in any order, of extremes on  *)
(* Thursday 2 January, Friday 3 January and Friday 10 January 2025, at     *)
(* 05:30, 06:00, 16:30, 17:00, 18:30 or 19:00.                             *)

MaxFridayExt == 2
FridayInputDays == {1, 2, 9}
FridayInputMinutes == {330, 360, 990, 1020, 1110, 1140}
FridayEntries ==
    { [time |-> d * MsPerDay + m * 60000, height |-> Cm(20), type |-> ty] :
        d \in FridayInputDays, m \in FridayInputMinutes, ty \in {"high", "low"} }

InitFriday ==
    /\ pc = "fr_call"
    /\ \E n \in 0..MaxFridayExt : extremes \in [1..n -> FridayEntries]
    /\ days = 0 /\ startTime = 0 /\ time = 0 /\ rng = 0 /\ points = <<>>
    /\ smoothedPoints = <<>> /\ candidates = <<>> /\ ci = 0
    /\ lastExtreme = <<>> /\ height = 0 /\ isDangerous = FALSE
    /\ recommendations = <<>> /\ branches = <<>> /\ window = 0

NextFriday == FR_Call

SpecFriday == InitFriday /\ [][NextFriday]_vars

IsFridayLow(e) ==
    e.type = "low" /\ ((3 + (e.time \div 86400000)) % 7) = 5

MsOfDay(t) == t % 86400000

(* C8: no High extreme and no extreme off Friday yields a recommendation:  *)
(* the output is the output for the Friday Low extremes alone, every       *)
(* recommendation is at the time of a Friday Low extreme or one hour       *)
(* later, and there are at most two for each Friday Low extreme.           *)
C8_OnlyFridayLows ==
    pc = "fr_done" =>
        LET lows == SelectSeq(extremes, IsFridayLow) IN
        /\ recommendations = getBestFridayVisitTimes(lows)
        /\ \A k \in DOMAIN recommendations :
              \E j \in DOMAIN lows :
                  \/ recommendations[k].time = lows[j].time
                  \/ recommendations[k].time = lows[j].time + 3600000
        /\ Len(recommendations) <= 2 * Len(lows)
        /\ (lows = <<>> => recommendations = <<>>)

C8_Witness ==
    /\ pc = "fr_done"
    /\ Len(extremes) = 2
    /\ extremes[1].type = "high" /\ getDay(extremes[1].time) = 5
    /\ getHours(extremes[1].time) = 16
    /\ IsFridayLow(extremes[2])
    /\ Len(recommendations) = 2

HasIdealAt(t) ==
    \E k \in DOMAIN recommendations :
        recommendations[k].time = t /\ recommendations[k].reason = IdealReason

(* C9 as claimed: a Friday Low extreme gets the 'ideal for beach           *)
(* activities' recommendation at its own time if and only if its local     *)
(* time of day t satisfies 06:00 <= t <= 18:00.                            *)
C9_IdealIffBy1800 ==
    pc = "fr_done" =>
        \A j \in DOMAIN extremes :
            IsFridayLow(extremes[j]) =>
                (HasIdealAt(extremes[j].time) <=>
                    /\ MsOfDay(extremes[j].time) >= 6 * 3600000
                    /\ MsOfDay(extremes[j].time) <= 18 * 3600000)

(* C9 amended: a Friday Low extreme gets the 'ideal for beach activities'  *)
(* recommendation at its own time if and only if its local hour of day is  *)
(* one of 6..18, that is 06:00 <= t < 19:00.                               *)
C9_IdealIffHour6To18 ==
    pc = "fr_done" =>
        \A j \in DOMAIN extremes :
            IsFridayLow(extremes[j]) =>
                (HasIdealAt(extremes[j].time) <=>
                    /\ MsOfDay(extremes[j].time) >= 6 * 3600000
                    /\ MsOfDay(extremes[j].time) < 19 * 3600000)

C9_Witness ==
    /\ pc = "fr_done"
    /\ \E j \in DOMAIN extremes :
          /\ IsFridayLow(extremes[j])
          /\ MsOfDay(extremes[j].time) = 18 * 3600000 + 1800000
          /\ HasIdealAt(extremes[j].time)

(* C10: a single Friday Low extreme whose own local time is in daylight    *)
(* hours and whose time plus one hour has a local hour in 7..17 yields     *)
(* exactly two recommendations: 'ideal for beach activities' at its own    *)
(* time, then 'good for swimming' exactly 3,600,000 ms later.              *)
C10_TwoRecommendations ==
    (/\ pc = "fr_done"
     /\ Len(extremes) = 1
     /\ IsFridayLow(extremes[1])
     /\ MsOfDay(extremes[1].time) >= 6 * 3600000
     /\ MsOfDay(extremes[1].time) <= 18 * 3600000
     /\ (MsOfDay(extremes[1].time + 3600000) \div 3600000) \in 7..17)
    => recommendations =
          << [time |-> extremes[1].time,
              reason |-> "Low tide during daylight hours - ideal for beach activities"],
             [time |-> extremes[1].time + 3600000,
              reason |-> "Gradually rising tide - good for swimming"] >>

C10_Witness ==
    /\ pc = "fr_done"
    /\ Len(extremes) = 1
    /\ IsFridayLow(extremes[1])
    /\ MsOfDay(extremes[1].time) = 6 * 3600000
    /\ Len(recommendations) = 2
    /\ recommendations[2].time = extremes[1].time + 3600000

----------------------------------------------------------------------------
(* Inputs of smoothData: a window size and a series of up to MaxSmoothLen  *)
(* points whose heights are 0.20 m (exact in the model) or lie where the   *)
(* model rounds: 2048, 2734 and 3279 units have sums that need more than   *)
(* FloatPrecision bits.                                                    *)

MaxSmoothLen == 5
MaxWindow == 5
SmoothHeights == {Cm(20), 2048, 2734, 3279}

InitSmooth ==
    /\ pc = "sm_call"
    /\ window \in 0..MaxWindow
    /\ \E n \in 0..MaxSmoothLen :
          \E hs \in [1..n -> SmoothHeights] :
              points = [k \in 1..n |->
                           [time |-> (k - 1) * samplingInterval, height |-> hs[k]]]
    /\ days = 0 /\ startTime = 0 /\ time = 0 /\ rng = 0
    /\ smoothedPoints = <<>> /\ candidates = <<>> /\ ci = 0
    /\ extremes = <<>> /\ lastExtreme = <<>> /\ height = 0
    /\ isDangerous = FALSE /\ recommendations = <<>> /\ branches = <<>>

NextSmooth == SM_Call

SpecSmooth == InitSmooth /\ [][NextSmooth]_vars

ConstantSeries(pts) ==
    \A j, k \in DOMAIN pts : pts[j].height = pts[k].height

WindowCount(n, w, k) ==
    Cardinality({j \in 1..n : j >= k - (w \div 2) /\ j <= k + (w \div 2)})

SameShape(pts, sm) ==
    /\ Len(sm) = Len(pts)
    /\ \A k \in DOMAIN pts : sm[k].time = pts[k].time

(* C11 as claimed: smoothData returns a series of the same length with the *)
(* same times, and a series whose heights all equal h is returned          *)
(* unchanged.                                                              *)
C11_SmoothConstantExact ==
    pc = "sm_done" =>
        /\ SameShape(points, smoothedPoints)
        /\ ConstantSeries(points) =>
              \A k \in DOMAIN points : smoothedPoints[k].height = points[k].height

(* C11 amended: smoothData returns a series of the same length with the    *)
(* same times; when all input heights equal h, an output height equals h   *)
(* where its window holds one or two points, and elsewhere differs from h  *)
(* by at most as many units in the last place of h as its window holds     *)
(* points.                                                                 *)
C11_SmoothConstantRounded ==
    pc = "sm_done" =>
        /\ SameShape(points, smoothedPoints)
        /\ ConstantSeries(points) =>
              \A k \in DOMAIN points :
                  LET h == points[k].height
                      n == WindowCount(Len(points), window, k)
                  IN /\ Abs(smoothedPoints[k].height - h) <= n * ulp(h)
                     /\ n <= 2 => smoothedPoints[k].height = h

C11_Witness ==
    /\ pc = "sm_done"
    /\ window = 3
    /\ Len(points) = 4
    /\ ConstantSeries(points)
    /\ points[1].height = 2734
    /\ smoothedPoints[1].height = 2734
    /\ smoothedPoints[2].height = 2733
    /\ smoothedPoints[2].time = points[2].time

----------------------------------------------------------------------------
(* C12: every extreme (and every candidate) of findExtremes on n points is *)
(* the smoothed point of an index i with 6 <= i <= n - 7 that ties with    *)
(* none of its 12 window neighbours; with strictly increasing times no     *)
(* extreme has the time of one of the first 6 or last 6 points; and 10, 11 *)
(* or 12 points yield the empty list.                                      *)
FromScannedIndex(e) ==
    \E i \in 6..(Len(points) - 7) :
        /\ e.time = At(points, i).time
        /\ e.height = At(smoothedPoints, i).height
        /\ \A j \in (i - 6)..(i + 6) :
              j # i => At(smoothedPoints, j).height # e.height

C12_InteriorUntied ==
    /\ \A k \in DOMAIN candidates : FromScannedIndex(candidates[k])
    /\ \A k \in DOMAIN extremes :
          /\ FromScannedIndex(extremes[k])
          /\ StrictlyIncreasingTimes(points) =>
                \A i \in 0..(Len(points) - 1) :
                    At(points, i).time = extremes[k].time =>
                        (i >= 6 /\ i <= Len(points) - 7)
    /\ (pc = "fe_done" /\ Len(points) \in 10..12) => extremes = <<>>

C12_Witness ==
    /\ pc = "fe_done"
    /\ Len(points) = 13
    /\ Len(extremes) = 1
    /\ extremes[1].time = At(points, 6).time
    /\ StrictlyIncreasingTimes(points)

----------------------------------------------------------------------------
(* C13: the merge loop is sequential and does not backtrack.  In every     *)
(* iteration the output keeps all its entries but possibly the last and    *)
(* never gets shorter; the first candidate is appended; a candidate of the *)
(* kind of the last entry that is at least 4 h later and 0.1 m apart       *)
(* overwrites the last entry when it is strictly more extreme and leaves   *)
(* the output unchanged otherwise.  A candidate that an iteration left out *)
(* of the output is not in the returned list, even when the entry it was   *)
(* compared with was replaced later.                                       *)
MergeIteration ==
    pc = "fe_merge" /\ ci' = ci + 1

PrefixKept ==
    /\ Len(extremes') >= Len(extremes)
    /\ \A k \in 1..(Len(extremes) - 1) : extremes'[k] = extremes[k]

SameKindPassing(c, last) ==
    /\ c.type = last.type
    /\ c.time - last.time >= 14400000
    /\ Abs(c.height - last.height) >= 60

StrictlyMoreExtreme(c, last) ==
    IF c.type = "high" THEN c.height > last.height ELSE c.height < last.height

MergeIterationOk ==
    MergeIteration =>
        LET c == candidates[ci + 1] IN
        /\ PrefixKept
        /\ ci = 0 => extremes' = <<c>>
        /\ (ci > 0 /\ SameKindPassing(c, extremes[Len(extremes)])) =>
              IF StrictlyMoreExtreme(c, extremes[Len(extremes)])
              THEN extremes' = [extremes EXCEPT ![Len(extremes)] = c]
              ELSE extremes' = extremes

LeftOut(k) == branches[k] \in {"reject", "keep"}

RejectedStayOut ==
    (pc = "fe_done" /\ StrictlyIncreasingTimes(points)) =>
        \A k \in DOMAIN branches :
            LeftOut(k) => \A j \in DOMAIN extremes : extremes[j] # candidates[k]

C13_NonBacktracking == [][MergeIterationOk]_vars /\ []RejectedStayOut

(* The second candidate was rejected against the first, the third replaced *)
(* the first, and the second would pass both gap tests against the third.  *)
C13_Witness ==
    /\ pc = "fe_done"
    /\ branches = <<"first", "reject", "replace">>
    /\ extremes = <<candidates[3]>>
    /\ candidates[2].type # candidates[3].type
    /\ Abs(candidates[2].height - candidates[3].height) >= 60
    /\ Abs(candidates[2].height - candidates[1].height) < 60

----------------------------------------------------------------------------
(* The effect of App: getTideData, then the first point's height and       *)
(* isDangerousTide of it.  With no point both state values keep what they  *)
(* had.  The effect runs once getTideData has returned (td_done) or, for a *)
(* series given point by point, once findExtremes has returned (fe_done).  *)

APP_Effect ==
    /\ pc \in {"td_done", "fe_done"}
    /\ IF Len(points) > 0
       THEN /\ height' = At(points, 0).height
            /\ isDangerous' = isDangerousTide(At(points, 0).height, extremes)
       ELSE UNCHANGED <<height, isDangerous>>
    /\ pc' = "app_done"
    /\ UNCHANGED <<days, startTime, time, rng, points, smoothedPoints,
                   candidates, ci, extremes, lastExtreme,
                   recommendations, branches, window>>

(* Clock values of the effect: those of getTideData and one near a high    *)
(* tide of the default constituents.                                       *)
HighTideStart == 34 * samplingInterval
AppStartTimes == StartTimes \cup {HighTideStart}

InitApp ==
    \/ InitExtremes
    \/ /\ pc = "td_loop"
       /\ days \in DaysArgs
       /\ startTime \in AppStartTimes
       /\ time = startTime
       /\ rng \in Seeds
       /\ points = <<>>
       /\ smoothedPoints = <<>> /\ candidates = <<>> /\ ci = 0
       /\ extremes = <<>> /\ lastExtreme = <<>> /\ height = 0
       /\ isDangerous = FALSE /\ recommendations = <<>> /\ branches = <<>>
       /\ window = 0

NextApp == NextTideData \/ NextExtremes \/ APP_Effect

SpecApp == InitApp /\ [][NextApp]_vars

(* Rule B on a list: two entries next to each other in time order are more *)
(* than 0.4 m apart and less than 4 h apart.                               *)
SwingPair(ext, a, b) ==
    /\ AdjacentByTime(ext, a, b)
    /\ Abs(ext[a].height - ext[b].height) > 240

RuleBFires(ext) ==
    \E a, b \in DOMAIN ext :
        /\ SwingPair(ext, a, b)
        /\ Abs(ext[a].time - ext[b].time) < 14400000

(* C14: Rule B never fires on a list that findExtremes returned, and the   *)
(* flag the effect sets is true exactly when the first point is above      *)
(* 0.85 m.                                                                 *)
C14_OnlyThreshold ==
    /\ pc \in {"td_done", "fe_done", "app_done"} => ~RuleBFires(extremes)
    /\ (pc = "app_done" /\ Len(points) > 0) =>
          /\ height = points[1].height
          /\ isDangerous <=> (height > 510)

(* The returned list has a swing of more than 0.4 m between neighbours and *)
(* the flag is false.                                                      *)
C14_Witness ==
    /\ pc = "app_done"
    /\ \E a, b \in DOMAIN extremes : SwingPair(extremes, a, b)
    /\ ~isDangerous

====
